---------------------------- MODULE Spec2Model ----------------------------
(***************************************************************************)
(* Piece geometry of src/tetris.js: the seven templates, the two matrix    *)
(* rotations, the TetrisPiece constructor and its movement, rotation and   *)
(* ghost-projection methods.                                               *)
(*                                                                         *)
(* A grid is a sequence of rows, each row a sequence of 0/1 cells.  The    *)
(* source indexes from 0, TLA+ sequences from 1: source cell m[r][c] is    *)
(* m[r + 1][c + 1] here.                                                   *)
(*                                                                         *)
(* tapX and newX are JavaScript numbers (fractions of a grid cell).  They  *)
(* are modelled in half cells: the argument n stands for the number n / 2, *)
(* so the comparison with the piece centre x + width / 2 and the ties of   *)
(* Math.round are exact.                                                   *)
(***************************************************************************)
EXTENDS Integers, Sequences, FiniteSets

VARIABLES
    piece,      \* the TetrisPiece object: [shape, color, name, x, y]
    pre,        \* the same object as it was when the most recent call began
    call,       \* the most recent call: its name and its arguments
    ret,        \* what the most recent call returned
    matrix,     \* rotation runs: the grid the run started from
    trail,      \* rotation runs: the grids so far, trail[1] = matrix
    fns,        \* rotation runs: the rotation applied at each step
    rep,        \* repeated calls: the call, the piece it started from, its results
    heap,       \* object runs: the arrays alive, by address
    tetrisPieces,   \* object runs: the TETRIS_PIECES array, shapes by address
    pieces,     \* object runs: the TetrisPiece objects alive, shapes by address
    last,       \* object runs: the most recent call and what the other piece was
    game,       \* one piece on one board: the board and how the piece was created
    loop,       \* a method body run statement by statement: its locals and position
    dropTimer,  \* the drop timer: timer, lastTime, running, dropInterval
    tick        \* the drop timer: the most recent call, what it invoked and returned

pieceVars == <<piece, pre, call, ret>>
rotVars == <<matrix, trail, fns>>
repVars == <<rep>>
heapVars == <<heap, tetrisPieces, pieces, last>>
gameVars == <<game>>
loopVars == <<loop>>
timerVars == <<dropTimer, tick>>
vars == <<piece, pre, call, ret, matrix, trail, fns, rep, heap, tetrisPieces, pieces, last,
          game, loop, dropTimer, tick>>

---------------------------------------------------------------------------
(* Bounds of the model *)

MaxBoardWidth == 4      \* boardWidth arguments are MaxBoardWidth - 1 and MaxBoardWidth
MaxBoardHeight == 4     \* boardHeight arguments are MaxBoardHeight - 1 and MaxBoardHeight
MaxStartY == 1          \* startY arguments are -1..MaxStartY
MaxDelta == 1           \* dx, dy arguments are -MaxDelta..MaxDelta
MaxCells == 6           \* rotation runs start from grids of at most MaxCells cells
MaxRotations == 4       \* rotation runs apply at most MaxRotations rotations
MaxCalls == 21          \* a call is repeated at most MaxCalls times
MaxRejections == 3      \* and no more once it was rejected MaxRejections times
MaxTime == 4            \* update is called with times 0..MaxTime, never going back
MaxDropInterval == 2    \* dropInterval arguments are 0..MaxDropInterval

\* the narrower board is narrower than the I template, the wider one holds it
BoardWidths == {MaxBoardWidth - 1, MaxBoardWidth}
BoardHeights == {MaxBoardHeight - 1, MaxBoardHeight}
StartYs == -1..MaxStartY
Deltas == -MaxDelta..MaxDelta
\* tapX in half cells: from the left edge of the board to its right edge
TapXs == 0..(2 * MaxBoardWidth)
\* newX in half cells: from one cell left of the board to one cell right of it
NewXs == (-2)..(2 * (MaxBoardWidth + 1))

---------------------------------------------------------------------------
(* CORE TETRIS PIECE DATA *)

TETRIS_PIECES ==
    << [shape |-> << <<1,1,1,1>> >>,            color |-> "#0ff", name |-> "I"],
       [shape |-> << <<1,1>>, <<1,1>> >>,       color |-> "#ff0", name |-> "O"],
       [shape |-> << <<0,1,0>>, <<1,1,1>> >>,   color |-> "#f0f", name |-> "T"],
       [shape |-> << <<0,1,1>>, <<1,1,0>> >>,   color |-> "#0f0", name |-> "S"],
       [shape |-> << <<1,1,0>>, <<0,1,1>> >>,   color |-> "#f00", name |-> "Z"],
       [shape |-> << <<1,0,0>>, <<1,1,1>> >>,   color |-> "#fa0", name |-> "L"],
       [shape |-> << <<0,0,1>>, <<1,1,1>> >>,   color |-> "#00f", name |-> "J"] >>

---------------------------------------------------------------------------
(* MATRIX ROTATION UTILITIES *)

\* variant: the source column is always column 0 ([0] written for [y])
rotateMatrixClockwise_firstColumn(m) ==
    LET rows == Len(m)
        cols == Len(m[1])
    IN  [y \in 1..cols |-> [x \in 1..rows |-> m[(rows - 1 - (x - 1)) + 1][1]]]

\* variant: the row reversal is left out (a plain transpose)
rotateMatrixClockwise_noReversal(m) ==
    LET rows == Len(m)
        cols == Len(m[1])
    IN  [y \in 1..cols |-> [x \in 1..rows |-> m[x][y]]]

\* rotated[y][x] = matrix[rows - 1 - x][y], y < cols, x < rows (0-based)
rotateMatrixClockwise(m) ==
    LET rows == Len(m)
        cols == Len(m[1])
    IN  [y \in 1..cols |-> [x \in 1..rows |-> m[(rows - 1 - (x - 1)) + 1][y]]]

\* variant: the body of the clockwise rotation pasted unchanged
rotateMatrixCounterClockwise_pasted(m) ==
    LET rows == Len(m)
        cols == Len(m[1])
    IN  [y \in 1..cols |-> [x \in 1..rows |-> m[(rows - 1 - (x - 1)) + 1][y]]]

\* variant: the column reversal is left out (a plain transpose)
rotateMatrixCounterClockwise_noReversal(m) ==
    LET rows == Len(m)
        cols == Len(m[1])
    IN  [y \in 1..cols |-> [x \in 1..rows |-> m[x][y]]]

\* rotated[y][x] = matrix[x][cols - 1 - y], y < cols, x < rows (0-based)
rotateMatrixCounterClockwise(m) ==
    LET rows == Len(m)
        cols == Len(m[1])
    IN  [y \in 1..cols |-> [x \in 1..rows |-> m[x][(cols - 1 - (y - 1)) + 1]]]

---------------------------------------------------------------------------
(* TETRIS PIECE CLASS *)

\* Math.floor(a / 2) for an integer a
FloorHalf(a) == a \div 2

\* variant: x is the floor of half the free width (one floor, taken of the difference)
TetrisPiece_halfOfDifference(pieceData, boardWidth, startY) ==
    [shape |-> [r \in 1..Len(pieceData.shape) |->
                   [c \in 1..Len(pieceData.shape[r]) |-> pieceData.shape[r][c]]],
     color |-> pieceData.color,
     name  |-> pieceData.name,
     x     |-> FloorHalf(boardWidth - Len(pieceData.shape[1])),
     y     |-> startY]

\* new TetrisPiece(pieceData, boardWidth, startY)
TetrisPiece(pieceData, boardWidth, startY) ==
    [shape |-> [r \in 1..Len(pieceData.shape) |->
                   [c \in 1..Len(pieceData.shape[r]) |-> pieceData.shape[r][c]]],
     color |-> pieceData.color,
     name  |-> pieceData.name,
     x     |-> FloorHalf(boardWidth) - FloorHalf(Len(pieceData.shape[1])),
     y     |-> startY]

\* this.shape[0].length and this.shape.length
shapeWidth(p) == Len(p.shape[1])
shapeHeight(p) == Len(p.shape)

---------------------------------------------------------------------------
(* PIECE MOVEMENT AND ROTATION METHODS *)

\* variant: >= written for >
clockwise_inclusive(p, tapXn) == tapXn >= 2 * p.x + Len(p.shape[1])

\* tapX > this.x + this.shape[0].length / 2 with tapX = tapXn / 2, both sides doubled
clockwise(p, tapXn) == tapXn > 2 * p.x + shapeWidth(p)

\* the candidate grid of rotateTowards
newShape(p, tapXn) ==
    IF clockwise(p, tapXn) THEN rotateMatrixClockwise(p.shape)
                           ELSE rotateMatrixCounterClockwise(p.shape)

\* variant: the check reads the current shape where it should read the candidate
rotationFits_currentShape(p, ns, boardWidth, boardHeight) ==
    /\ p.x + Len(p.shape[1]) <= boardWidth
    /\ p.y + Len(p.shape) <= boardHeight

\* variant: < written for <=
rotationFits_strict(p, ns, boardWidth, boardHeight) ==
    /\ p.x + Len(ns[1]) < boardWidth
    /\ p.y + Len(ns) < boardHeight

\* variant: the height check is left out
rotationFits_widthOnly(p, ns, boardWidth, boardHeight) ==
    p.x + Len(ns[1]) <= boardWidth

\* the bounds check of rotateTowards
rotationFits(p, ns, boardWidth, boardHeight) ==
    /\ p.x + Len(ns[1]) <= boardWidth
    /\ p.y + Len(ns) <= boardHeight

\* variant: an accepted rotation also re-centres the piece on its old columns
rotateTowards_recentred(p, tapXn, boardWidth, boardHeight) ==
    LET ns == newShape(p, tapXn)
    IN  IF rotationFits(p, ns, boardWidth, boardHeight)
        THEN [piece |-> [p EXCEPT !.shape = ns,
                                  !.x = p.x + ((Len(p.shape[1]) - Len(ns[1])) \div 2)],
              ret |-> TRUE]
        ELSE [piece |-> p, ret |-> FALSE]

\* variant: the candidate is assigned before the check and not taken back
rotateTowards_assignedFirst(p, tapXn, boardWidth, boardHeight) ==
    LET ns == newShape(p, tapXn)
    IN  [piece |-> [p EXCEPT !.shape = ns],
         ret |-> rotationFits(p, ns, boardWidth, boardHeight)]

\* rotateTowards: the piece afterwards and the value returned
rotateTowards(p, tapXn, boardWidth, boardHeight) ==
    LET ns == newShape(p, tapXn)
    IN  IF rotationFits(p, ns, boardWidth, boardHeight)
        THEN [piece |-> [p EXCEPT !.shape = ns], ret |-> TRUE]
        ELSE [piece |-> p, ret |-> FALSE]

\* variant: the lower-bound checks are left out, as they are in rotateTowards
moveFits_noLowerBound(p, newX, newY, boardWidth, boardHeight) ==
    /\ newX + Len(p.shape[1]) <= boardWidth
    /\ newY + Len(p.shape) <= boardHeight

\* variant: < written for <= in the upper-bound checks
moveFits_strictUpper(p, newX, newY, boardWidth, boardHeight) ==
    /\ newX >= 0
    /\ newX + Len(p.shape[1]) < boardWidth
    /\ newY >= 0
    /\ newY + Len(p.shape) < boardHeight

\* the bounds check of move
moveFits(p, newX, newY, boardWidth, boardHeight) ==
    /\ newX >= 0
    /\ newX + shapeWidth(p) <= boardWidth
    /\ newY >= 0
    /\ newY + shapeHeight(p) <= boardHeight

\* variant: each axis is checked and committed on its own
move_perAxis(p, dx, dy, boardWidth, boardHeight) ==
    LET newX == p.x + dx
        newY == p.y + dy
        okX == newX >= 0 /\ newX + Len(p.shape[1]) <= boardWidth
        okY == newY >= 0 /\ newY + Len(p.shape) <= boardHeight
    IN  [piece |-> [p EXCEPT !.x = IF okX THEN newX ELSE p.x,
                             !.y = IF okY THEN newY ELSE p.y],
         ret |-> okX /\ okY]

\* move: the piece afterwards and the value returned
move(p, dx, dy, boardWidth, boardHeight) ==
    LET newX == p.x + dx
        newY == p.y + dy
    IN  IF moveFits(p, newX, newY, boardWidth, boardHeight)
        THEN [piece |-> [p EXCEPT !.x = newX, !.y = newY], ret |-> TRUE]
        ELSE [piece |-> p, ret |-> FALSE]

\* variant: Math.floor written for Math.round
Round_floor(n) == n \div 2

\* Math.round(n / 2): the nearest integer, a tie going up; floor(n / 2 + 1 / 2)
Round(n) == (n + 1) \div 2

Max(a, b) == IF a >= b THEN a ELSE b
Min(a, b) == IF a <= b THEN a ELSE b

\* the clamped target of setX
constrainedX(p, newXn, boardWidth) ==
    Max(0, Min(boardWidth - shapeWidth(p), Round(newXn)))

\* variant: the call reports success whether or not x changed
setX_alwaysTrue(p, newXn, boardWidth) ==
    LET cx == constrainedX(p, newXn, boardWidth)
    IN  [piece |-> [p EXCEPT !.x = cx], ret |-> TRUE]

\* setX: the piece afterwards and the value returned
setX(p, newXn, boardWidth) ==
    LET cx == constrainedX(p, newXn, boardWidth)
    IN  IF cx # p.x
        THEN [piece |-> [p EXCEPT !.x = cx], ret |-> TRUE]
        ELSE [piece |-> p, ret |-> FALSE]

---------------------------------------------------------------------------
(* GHOST PIECE UTILITIES *)

RECURSIVE ghostLoop_inclusive(_, _, _)
\* variant: <= written for < in the loop condition
ghostLoop_inclusive(testY, height, boardHeight) ==
    IF testY + height <= boardHeight
    THEN ghostLoop_inclusive(testY + 1, height, boardHeight)
    ELSE testY

RECURSIVE ghostLoop(_, _, _)
\* while (testY + this.shape.length < boardHeight) testY++
ghostLoop(testY, height, boardHeight) ==
    IF testY + height < boardHeight
    THEN ghostLoop(testY + 1, height, boardHeight)
    ELSE testY

\* variant: the search starts from row 0 instead of this.y
getGhostY_fromTop(p, boardHeight) == ghostLoop(0, Len(p.shape), boardHeight)

getGhostY(p, boardHeight) == ghostLoop(p.y, shapeHeight(p), boardHeight)

\* variant: += written for =
teleportToGhost_added(p, boardHeight) == [p EXCEPT !.y = p.y + getGhostY(p, boardHeight)]

teleportToGhost(p, boardHeight) == [p EXCEPT !.y = getGhostY(p, boardHeight)]

---------------------------------------------------------------------------
(* The calls a caller can make on the piece it owns *)

\* the optional trailing argument of the constructor: given or left out
StartYArgs == {<<>>} \cup {<<s>> : s \in StartYs}

\* startY = 0 in the parameter list: the default when the argument is left out
startYOrDefault(rest) == IF Len(rest) = 0 THEN 0 ELSE rest[1]

\* the state right after new TetrisPiece(TETRIS_PIECES[i], boardWidth, ...rest)
Constructed(i, boardWidth, rest) ==
    LET p == TetrisPiece(TETRIS_PIECES[i], boardWidth, startYOrDefault(rest))
    IN  /\ piece' = p
        /\ pre' = p
        /\ call' = [op |-> "create", template |-> i, boardWidth |-> boardWidth,
                    rest |-> rest]
        /\ ret' = "undefined"

Create ==
    /\ \E i \in 1..Len(TETRIS_PIECES), boardWidth \in BoardWidths, rest \in StartYArgs :
            Constructed(i, boardWidth, rest)
    /\ UNCHANGED <<rotVars, repVars, heapVars, gameVars, loopVars, timerVars>>

RotateTowards ==
    /\ \E tapXn \in TapXs, boardWidth \in BoardWidths, boardHeight \in BoardHeights :
            LET r == rotateTowards(piece, tapXn, boardWidth, boardHeight)
            IN  /\ piece' = r.piece
                /\ ret' = r.ret
                /\ call' = [op |-> "rotateTowards", tapX |-> tapXn,
                            boardWidth |-> boardWidth, boardHeight |-> boardHeight]
    /\ pre' = piece
    /\ UNCHANGED <<rotVars, repVars, heapVars, gameVars, loopVars, timerVars>>

Move ==
    /\ \E dx \in Deltas, dy \in Deltas, boardWidth \in BoardWidths,
          boardHeight \in BoardHeights :
            LET r == move(piece, dx, dy, boardWidth, boardHeight)
            IN  /\ piece' = r.piece
                /\ ret' = r.ret
                /\ call' = [op |-> "move", dx |-> dx, dy |-> dy,
                            boardWidth |-> boardWidth, boardHeight |-> boardHeight]
    /\ pre' = piece
    /\ UNCHANGED <<rotVars, repVars, heapVars, gameVars, loopVars, timerVars>>

SetX ==
    /\ \E newXn \in NewXs, boardWidth \in BoardWidths :
            LET r == setX(piece, newXn, boardWidth)
            IN  /\ piece' = r.piece
                /\ ret' = r.ret
                /\ call' = [op |-> "setX", newX |-> newXn, boardWidth |-> boardWidth]
    /\ pre' = piece
    /\ UNCHANGED <<rotVars, repVars, heapVars, gameVars, loopVars, timerVars>>

GetGhostY ==
    /\ \E boardHeight \in BoardHeights :
            /\ ret' = getGhostY(piece, boardHeight)
            /\ call' = [op |-> "getGhostY", boardHeight |-> boardHeight]
    /\ piece' = piece
    /\ pre' = piece
    /\ UNCHANGED <<rotVars, repVars, heapVars, gameVars, loopVars, timerVars>>

TeleportToGhost ==
    /\ \E boardHeight \in BoardHeights :
            /\ piece' = teleportToGhost(piece, boardHeight)
            /\ call' = [op |-> "teleportToGhost", boardHeight |-> boardHeight]
    /\ ret' = "undefined"
    /\ pre' = piece
    /\ UNCHANGED <<rotVars, repVars, heapVars, gameVars, loopVars, timerVars>>

\* the rotation variables while the piece is exercised: no run in progress
RotIdle ==
    /\ matrix = TETRIS_PIECES[1].shape
    /\ trail = <<matrix>>
    /\ fns = <<>>

\* no call is being repeated
RepIdle == rep = <<>>

\* no object run in progress
HeapIdle ==
    /\ heap = <<>>
    /\ tetrisPieces = <<>>
    /\ pieces = <<>>
    /\ last = <<>>

\* no single-board game in progress
GameIdle == game = <<>>

\* no method body being stepped through
LoopIdle == loop = <<>>

\* no drop timer created
TimerIdle ==
    /\ dropTimer = <<>>
    /\ tick = <<>>

Init ==
    /\ \E i \in 1..Len(TETRIS_PIECES), boardWidth \in BoardWidths, rest \in StartYArgs :
            LET p == TetrisPiece(TETRIS_PIECES[i], boardWidth, startYOrDefault(rest))
            IN  /\ piece = p
                /\ pre = p
                /\ call = [op |-> "create", template |-> i, boardWidth |-> boardWidth,
                           rest |-> rest]
                /\ ret = "undefined"
    /\ RotIdle
    /\ RepIdle
    /\ HeapIdle
    /\ GameIdle
    /\ LoopIdle
    /\ TimerIdle

Next ==
    \/ Create
    \/ RotateTowards
    \/ Move
    \/ SetX
    \/ GetGhostY
    \/ TeleportToGhost

Spec == Init /\ [][Next]_vars

---------------------------------------------------------------------------
(* Rotation runs: the two pure rotations applied, in any order, to a grid *)

\* the rectangular 0/1 grids of r rows and c columns
GridsOf(r, c) == [1..r -> [1..c -> {0, 1}]]

\* every rectangular 0/1 grid of at least one cell and at most MaxCells cells
Grids ==
    UNION {GridsOf(r, c) : <<r, c>> \in
              {d \in (1..MaxCells) \X (1..MaxCells) : d[1] * d[2] <= MaxCells}}

TemplateShapes == {TETRIS_PIECES[i].shape : i \in 1..Len(TETRIS_PIECES)}

\* the grid the next rotation of the run is applied to
current == trail[Len(trail)]

ApplyClockwise ==
    /\ Len(fns) < MaxRotations
    /\ trail' = Append(trail, rotateMatrixClockwise(current))
    /\ fns' = Append(fns, "cw")
    /\ UNCHANGED <<matrix, pieceVars, repVars, heapVars, gameVars, loopVars, timerVars>>

ApplyCounterClockwise ==
    /\ Len(fns) < MaxRotations
    /\ trail' = Append(trail, rotateMatrixCounterClockwise(current))
    /\ fns' = Append(fns, "ccw")
    /\ UNCHANGED <<matrix, pieceVars, repVars, heapVars, gameVars, loopVars, timerVars>>

\* the piece variables while rotations are exercised: one piece, never called
PieceIdle ==
    /\ piece = TetrisPiece(TETRIS_PIECES[1], MaxBoardWidth, 0)
    /\ pre = piece
    /\ call = [op |-> "create", template |-> 1, boardWidth |-> MaxBoardWidth,
               rest |-> <<>>]
    /\ ret = "undefined"

RotInit ==
    /\ matrix \in Grids
    /\ trail = <<matrix>>
    /\ fns = <<>>
    /\ PieceIdle
    /\ RepIdle
    /\ HeapIdle
    /\ GameIdle
    /\ LoopIdle
    /\ TimerIdle

RotNext ==
    \/ ApplyClockwise
    \/ ApplyCounterClockwise

RotSpec == RotInit /\ [][RotNext]_vars

---------------------------------------------------------------------------
(* Repeated calls: one move, rotateTowards or setX call made again and again *)
(* with the same arguments and no other call in between                      *)

RECURSIVE turned(_, _)
\* the grid g after k clockwise quarter turns
turned(g, k) == IF k = 0 THEN g ELSE turned(rotateMatrixClockwise(g), k - 1)

\* the pieces a repeated call starts from: every template in every
\* orientation, its top-left cell anywhere on the widest and highest board
StartPieces ==
    {[shape |-> turned(TETRIS_PIECES[i].shape, k),
      color |-> TETRIS_PIECES[i].color,
      name  |-> TETRIS_PIECES[i].name,
      x     |-> x,
      y     |-> y] :
        i \in 1..Len(TETRIS_PIECES), k \in 0..3,
        x \in 0..(MaxBoardWidth - 1), y \in 0..(MaxBoardHeight - 1)}

\* the calls that are repeated
RepeatCalls ==
    {[op |-> "move", dx |-> dx, dy |-> dy, boardWidth |-> bw, boardHeight |-> bh] :
        dx \in Deltas, dy \in Deltas, bw \in BoardWidths, bh \in BoardHeights}
    \cup
    {[op |-> "rotateTowards", tapX |-> t, boardWidth |-> bw, boardHeight |-> bh] :
        t \in TapXs, bw \in BoardWidths, bh \in BoardHeights}
    \cup
    {[op |-> "setX", newX |-> n, boardWidth |-> bw] : n \in NewXs, bw \in BoardWidths}

\* the scenario of the specification: a new I piece on a 10 x 20 board, dropped
\* one row at a time
ScenarioPiece == TetrisPiece(TETRIS_PIECES[1], 10, startYOrDefault(<<>>))
ScenarioCall ==
    [op |-> "move", dx |-> 0, dy |-> 1, boardWidth |-> 10, boardHeight |-> 20]

\* how many of the results so far are rejections
Rejections == Cardinality({i \in 1..Len(rep.results) : rep.results[i].ret = FALSE})

MayRepeat == Len(rep.results) < MaxCalls /\ Rejections < MaxRejections

\* the bookkeeping of one more call of rep.call that gave r
Repeated(r) ==
    /\ piece' = r.piece
    /\ ret' = r.ret
    /\ pre' = piece
    /\ call' = rep.call
    /\ rep' = [rep EXCEPT !.results = Append(@, [piece |-> r.piece, ret |-> r.ret])]
    /\ UNCHANGED <<rotVars, heapVars, gameVars, loopVars, timerVars>>

RepeatMove ==
    /\ MayRepeat
    /\ rep.call.op = "move"
    /\ Repeated(move(piece, rep.call.dx, rep.call.dy,
                     rep.call.boardWidth, rep.call.boardHeight))

RepeatRotateTowards ==
    /\ MayRepeat
    /\ rep.call.op = "rotateTowards"
    /\ Repeated(rotateTowards(piece, rep.call.tapX,
                              rep.call.boardWidth, rep.call.boardHeight))

RepeatSetX ==
    /\ MayRepeat
    /\ rep.call.op = "setX"
    /\ Repeated(setX(piece, rep.call.newX, rep.call.boardWidth))

RepeatInit ==
    /\ \E s \in [p : StartPieces, c : RepeatCalls]
                 \cup {[p |-> ScenarioPiece, c |-> ScenarioCall]} :
          /\ piece = s.p
          /\ rep = [call |-> s.c, start |-> s.p, results |-> <<>>]
    /\ pre = piece
    /\ call = [op |-> "none"]
    /\ ret = "undefined"
    /\ RotIdle
    /\ HeapIdle
    /\ GameIdle
    /\ LoopIdle
    /\ TimerIdle

RepeatNext ==
    \/ RepeatMove
    \/ RepeatRotateTowards
    \/ RepeatSetX

RepeatSpec == RepeatInit /\ [][RepeatNext]_vars

---------------------------------------------------------------------------
(* One board: a piece is created for a board, and every later call on it     *)
(* passes that board's width and height                                      *)

GameInit ==
    /\ \E i \in 1..Len(TETRIS_PIECES), boardWidth \in BoardWidths,
          boardHeight \in BoardHeights, rest \in StartYArgs :
            LET p == TetrisPiece(TETRIS_PIECES[i], boardWidth, startYOrDefault(rest))
            IN  /\ piece = p
                /\ pre = p
                /\ call = [op |-> "create", template |-> i, boardWidth |-> boardWidth,
                           rest |-> rest]
                /\ game = [boardWidth |-> boardWidth, boardHeight |-> boardHeight,
                           template |-> i, startY |-> startYOrDefault(rest)]
    /\ ret = "undefined"
    /\ RotIdle
    /\ RepIdle
    /\ HeapIdle
    /\ LoopIdle
    /\ TimerIdle

\* the bookkeeping of a call on the board's piece: pre and call stay those of
\* the creation
GamePlayed(p, r) ==
    /\ piece' = p
    /\ ret' = r
    /\ UNCHANGED <<pre, call, game, rotVars, repVars, heapVars, loopVars, timerVars>>

GameRotateTowards ==
    \E tapXn \in TapXs :
        LET r == rotateTowards(piece, tapXn, game.boardWidth, game.boardHeight)
        IN  GamePlayed(r.piece, r.ret)

GameMove ==
    \E dx \in Deltas, dy \in Deltas :
        LET r == move(piece, dx, dy, game.boardWidth, game.boardHeight)
        IN  GamePlayed(r.piece, r.ret)

GameSetX ==
    \E newXn \in NewXs :
        LET r == setX(piece, newXn, game.boardWidth)
        IN  GamePlayed(r.piece, r.ret)

GameTeleportToGhost ==
    GamePlayed(teleportToGhost(piece, game.boardHeight), "undefined")

GameNext ==
    \/ GameRotateTowards
    \/ GameMove
    \/ GameSetX
    \/ GameTeleportToGhost

GameSpec == GameInit /\ [][GameNext]_vars

---------------------------------------------------------------------------
(* Loops: the bodies of getGhostY and of the two rotations run one loop step *)
(* at a time.  loop holds the arguments, the locals, the position pc, the    *)
(* number of loop bodies run so far (steps) and ret, empty until the call    *)
(* returns and then holding the value returned.  The other methods and the   *)
(* constructor contain no loop.                                              *)

\* this.y of a piece whose ghost is asked for: any row, also above the board
GhostYs == (-MaxBoardHeight)..MaxBoardHeight

\* the boardHeight argument of getGhostY: any height, also none and negative
GhostBoardHeights == (-1)..MaxBoardHeight

\* the pieces whose ghost is asked for: every template in every orientation
GhostPieces ==
    {[p EXCEPT !.y = y] : p \in {q \in StartPieces : q.x = 0 /\ q.y = 0}, y \in GhostYs}

\* variant: <= written for < in the loop condition
whileCondition_inclusive(testY, height, boardHeight) == testY + height <= boardHeight

\* testY + this.shape.length < boardHeight
whileCondition(testY, height, boardHeight) == testY + height < boardHeight

\* getGhostY has been called: let testY = this.y
GhostCalled(p, boardHeight) ==
    loop = [fn |-> "getGhostY", this |-> p, boardHeight |-> boardHeight,
            pc |-> "while", testY |-> p.y, steps |-> 0, ret |-> <<>>]

\* a rotation has been called: rows, cols and rotated = [] are set, y = 0
RotationCalled(fn, m) ==
    loop = [fn |-> fn, matrix |-> m, rows |-> Len(m), cols |-> Len(m[1]),
            pc |-> "for y", y |-> 0, x |-> 0, rotated |-> <<>>, steps |-> 0,
            ret |-> <<>>]

LoopStepped == UNCHANGED <<pieceVars, rotVars, repVars, heapVars, gameVars, timerVars>>

\* the loop condition holds: testY++
GhostBody ==
    /\ loop.fn = "getGhostY"
    /\ loop.pc = "while"
    /\ whileCondition(loop.testY, Len(loop.this.shape), loop.boardHeight)
    /\ loop' = [loop EXCEPT !.testY = @ + 1, !.steps = @ + 1]
    /\ LoopStepped

\* the loop condition fails: return testY
GhostReturn ==
    /\ loop.fn = "getGhostY"
    /\ loop.pc = "while"
    /\ ~whileCondition(loop.testY, Len(loop.this.shape), loop.boardHeight)
    /\ loop' = [loop EXCEPT !.pc = "done", !.ret = <<loop.testY>>]
    /\ LoopStepped

IsRotation == loop.fn \in {"rotateMatrixClockwise", "rotateMatrixCounterClockwise"}

\* y < cols: rotated[y] = [], and the inner loop starts with x = 0
RotationRow ==
    /\ IsRotation
    /\ loop.pc = "for y"
    /\ loop.y < loop.cols
    /\ loop' = [loop EXCEPT !.rotated = Append(@, <<>>), !.x = 0, !.pc = "for x"]
    /\ LoopStepped

\* x < rows: rotated[y][x] = matrix[rows - 1 - x][y] or matrix[x][cols - 1 - y]; x++
RotationCell ==
    /\ IsRotation
    /\ loop.pc = "for x"
    /\ loop.x < loop.rows
    /\ LET cell == IF loop.fn = "rotateMatrixClockwise"
                   THEN loop.matrix[(loop.rows - 1 - loop.x) + 1][loop.y + 1]
                   ELSE loop.matrix[loop.x + 1][(loop.cols - 1 - loop.y) + 1]
       IN  loop' = [loop EXCEPT !.rotated[loop.y + 1] = Append(@, cell),
                                !.x = @ + 1, !.steps = @ + 1]
    /\ LoopStepped

\* x >= rows: the inner loop ends; y++
RotationRowDone ==
    /\ IsRotation
    /\ loop.pc = "for x"
    /\ loop.x >= loop.rows
    /\ loop' = [loop EXCEPT !.y = @ + 1, !.pc = "for y"]
    /\ LoopStepped

\* y >= cols: the outer loop ends; return rotated
RotationReturn ==
    /\ IsRotation
    /\ loop.pc = "for y"
    /\ loop.y >= loop.cols
    /\ loop' = [loop EXCEPT !.pc = "done", !.ret = <<loop.rotated>>]
    /\ LoopStepped

LoopInit ==
    /\ \/ \E p \in GhostPieces, boardHeight \in GhostBoardHeights :
              GhostCalled(p, boardHeight)
       \/ \E m \in Grids :
              \/ RotationCalled("rotateMatrixClockwise", m)
              \/ RotationCalled("rotateMatrixCounterClockwise", m)
    /\ PieceIdle
    /\ RotIdle
    /\ RepIdle
    /\ HeapIdle
    /\ GameIdle
    /\ TimerIdle

LoopNext ==
    \/ GhostBody
    \/ GhostReturn
    \/ RotationRow
    \/ RotationCell
    \/ RotationRowDone
    \/ RotationReturn

\* a call that has started runs on: the code is synchronous and single-threaded
LoopSpec == LoopInit /\ [][LoopNext]_vars /\ WF_vars(LoopNext)

---------------------------------------------------------------------------
(* The drop timer.  dropTimer holds the variables the closures of            *)
(* createDropTimer share: timer, lastTime, running and the parameter         *)
(* dropInterval.  tick describes the most recent call: op and args, the      *)
(* callbacks it invoked in order (calls), what onDrop returned if it was     *)
(* invoked (canDrop), what the call returned (ret), the timer variables      *)
(* before the call (before), the latest time passed to update (clock), the   *)
(* time of the latest update that found the timer running (lastRun, empty    *)
(* if there was none) and whether pause has turned the timer on since then   *)
(* (resumed); was holds lastRun and resumed as they were before the call.    *)

\* dropInterval = 1000 in the parameter list
DefaultDropInterval == 1000

\* the optional trailing argument of createDropTimer: given or left out
DropIntervalArgs == {<<>>} \cup {<<d>> : d \in 0..MaxDropInterval}

dropIntervalOrDefault(rest) == IF Len(rest) = 0 THEN DefaultDropInterval ELSE rest[1]

\* the variables of the closure right after createDropTimer
createDropTimer(dropInterval) ==
    [timer |-> 0, lastTime |-> 0, running |-> FALSE, dropInterval |-> dropInterval]

\* variant: update without its first line, if (!running) return
update_unguarded(t, currentTime, canDrop) ==
    LET lastTime == IF t.lastTime = 0 THEN currentTime ELSE t.lastTime
        timer == t.timer + (currentTime - lastTime)
    IN  IF timer >= t.dropInterval
        THEN [state |-> [t EXCEPT !.lastTime = currentTime, !.timer = 0],
              calls |-> IF canDrop THEN <<"onDrop">> ELSE <<"onDrop", "onBottom">>]
        ELSE [state |-> [t EXCEPT !.lastTime = currentTime, !.timer = timer],
              calls |-> <<>>]

\* update(currentTime), canDrop being what onDrop returns if it is invoked:
\* the variables afterwards and the callbacks invoked, in order
update(t, currentTime, canDrop) ==
    IF ~t.running THEN [state |-> t, calls |-> <<>>]
    ELSE LET lastTime == IF t.lastTime = 0 THEN currentTime ELSE t.lastTime
             deltaTime == currentTime - lastTime
             timer == t.timer + deltaTime
         IN  IF timer >= t.dropInterval
             THEN [state |-> [t EXCEPT !.lastTime = currentTime, !.timer = 0],
                   calls |-> IF canDrop THEN <<"onDrop">> ELSE <<"onDrop", "onBottom">>]
             ELSE [state |-> [t EXCEPT !.lastTime = currentTime, !.timer = timer],
                   calls |-> <<>>]

start(t) == [t EXCEPT !.running = TRUE, !.timer = 0]

stop(t) == [t EXCEPT !.running = FALSE]

\* variant: pause only ever turns the timer off
pause_off(t) == [t EXCEPT !.running = FALSE]

pause(t) == [t EXCEPT !.running = ~t.running]

isRunning(t) == t.running

\* the bookkeeping of a call that leaves the timer variables t
TimerCalled(op, args, t, calls, canDrop, r, clock, lastRun, resumed) ==
    /\ dropTimer' = t
    /\ tick' = [op |-> op, args |-> args, calls |-> calls, canDrop |-> canDrop,
                ret |-> r, before |-> dropTimer, clock |-> clock,
                lastRun |-> lastRun, resumed |-> resumed,
                was |-> [lastRun |-> tick.lastRun, resumed |-> tick.resumed]]
    /\ UNCHANGED <<pieceVars, rotVars, repVars, heapVars, gameVars, loopVars>>

Update ==
    \E currentTime \in tick.clock..MaxTime, canDrop \in BOOLEAN :
        LET u == update(dropTimer, currentTime, canDrop)
        IN  TimerCalled("update", <<currentTime>>, u.state, u.calls,
                        IF Len(u.calls) > 0 THEN <<canDrop>> ELSE <<>>,
                        <<>>, currentTime,
                        IF dropTimer.running THEN <<currentTime>> ELSE tick.lastRun,
                        IF dropTimer.running THEN FALSE ELSE tick.resumed)

Start ==
    TimerCalled("start", <<>>, start(dropTimer), <<>>, <<>>, <<>>,
                tick.clock, tick.lastRun, tick.resumed)

Stop ==
    TimerCalled("stop", <<>>, stop(dropTimer), <<>>, <<>>, <<>>,
                tick.clock, tick.lastRun, tick.resumed)

Pause ==
    TimerCalled("pause", <<>>, pause(dropTimer), <<>>, <<>>, <<>>,
                tick.clock, tick.lastRun, tick.resumed \/ pause(dropTimer).running)

IsRunning ==
    TimerCalled("isRunning", <<>>, dropTimer, <<>>, <<>>, <<isRunning(dropTimer)>>,
                tick.clock, tick.lastRun, tick.resumed)

TimerInit ==
    /\ \E rest \in DropIntervalArgs :
          /\ dropTimer = createDropTimer(dropIntervalOrDefault(rest))
          /\ tick = [op |-> "createDropTimer", args |-> rest, calls |-> <<>>,
                     canDrop |-> <<>>, ret |-> <<>>, before |-> dropTimer, clock |-> 0,
                     lastRun |-> <<>>, resumed |-> FALSE,
                     was |-> [lastRun |-> <<>>, resumed |-> FALSE]]
    /\ PieceIdle
    /\ RotIdle
    /\ RepIdle
    /\ HeapIdle
    /\ GameIdle
    /\ LoopIdle

TimerNext ==
    \/ Update
    \/ Start
    \/ Stop
    \/ Pause
    \/ IsRunning

TimerSpec == TimerInit /\ [][TimerNext]_vars

---------------------------------------------------------------------------
(* Object runs: arrays have identity.  heap maps the address of every live   *)
(* array to its contents: a row array holds cells, a grid array holds the    *)
(* addresses of its rows.  Two pieces are alive on one board; the first is   *)
(* the one the game calls, either may be replaced by a new piece.            *)

\* the grid read through the array at address a
deref(h, a) == [r \in 1..Len(h[a]) |-> h[h[a][r]]]

\* the arrays a grid array consists of: itself and its rows
arraysOf(h, a) == {a} \cup {h[a][r] : r \in 1..Len(h[a])}

RECURSIVE freshAddrs(_, _, _)
\* the n lowest addresses from `from' on that are not in use
freshAddrs(used, n, from) ==
    IF n = 0 THEN <<>>
    ELSE IF from \in used THEN freshAddrs(used, n, from + 1)
    ELSE <<from>> \o freshAddrs(used, n - 1, from + 1)

\* the heap with the new arrays at addresses as (a sequence) holding contents cs
withArrays(h, as, cs) ==
    LET new == {as[i] : i \in 1..Len(as)}
    IN  [a \in (DOMAIN h) \cup new |->
            IF a \in new THEN cs[CHOOSE i \in 1..Len(as) : as[i] = a] ELSE h[a]]

\* a new grid array of new row arrays holding g: the heap afterwards and the
\* address of the grid array
allocGrid(h, g) ==
    LET as == freshAddrs(DOMAIN h, Len(g) + 1, 1)
        rows == SubSeq(as, 1, Len(g))
    IN  [heap |-> withArrays(h, as, g \o <<rows>>), addr |-> as[Len(g) + 1]]

\* variant: this.shape = pieceData.shape
copyShape_sameArray(h, a) == [heap |-> h, addr |-> a]

\* variant: this.shape = [...pieceData.shape], a new grid array of the same rows
copyShape_sameRows(h, a) ==
    LET as == freshAddrs(DOMAIN h, 1, 1)
    IN  [heap |-> withArrays(h, as, <<h[a]>>), addr |-> as[1]]

\* pieceData.shape.map(row => [...row])
copyShape(h, a) == allocGrid(h, deref(h, a))

RECURSIVE visit(_, _)
\* the arrays met when the grid arrays at rs (a sequence) are walked in order,
\* the rows of each before the grid array itself
visit(h, rs) ==
    IF Len(rs) = 0 THEN <<>> ELSE h[rs[1]] \o <<rs[1]>> \o visit(h, Tail(rs))

RECURSIVE distinct(_, _)
\* acc followed by the elements of seq not met before, in order
distinct(acc, seq) ==
    IF Len(seq) = 0 THEN acc
    ELSE distinct(IF \E i \in 1..Len(acc) : acc[i] = seq[1]
                  THEN acc ELSE Append(acc, seq[1]),
                  Tail(seq))

\* where a stands in the sequence u
indexIn(u, a) == CHOOSE n \in 1..Len(u) : u[n] = a

\* the arrays u of h moved to the addresses 1..Len(u), the grid arrays among
\* them pointing to the moved rows; `to' maps old addresses to new ones
moved(h, rs, u) ==
    [heap |-> [n \in 1..Len(u) |->
                  IF \E i \in 1..Len(rs) : rs[i] = u[n]
                  THEN [r \in 1..Len(h[u[n]]) |-> indexIn(u, h[u[n]][r])]
                  ELSE h[u[n]]],
     to |-> [a \in {u[n] : n \in 1..Len(u)} |-> indexIn(u, a)]]

\* what stays of h when only the grid arrays at rs are referenced.  Addresses
\* cannot be observed, so the arrays that stay are moved to the addresses
\* 1, 2, ... in the order they are first met from rs.
collect(h, rs) == moved(h, rs, distinct(<<>>, visit(h, rs)))

\* an object with its shape read through the heap
valueOf(h, o) == [o EXCEPT !.shape = deref(h, @)]

RECURSIVE loaded(_)
\* the first k entries of the TETRIS_PIECES literal evaluated: heap and objects
loaded(k) ==
    IF k = 0 THEN [heap |-> <<>>, objs |-> <<>>]
    ELSE LET l == loaded(k - 1)
             g == allocGrid(l.heap, TETRIS_PIECES[k].shape)
         IN  [heap |-> g.heap,
              objs |-> Append(l.objs, [TETRIS_PIECES[k] EXCEPT !.shape = g.addr])]

\* new TetrisPiece(pieceData, boardWidth, startY): the heap afterwards and the object
newTetrisPiece(h, pieceData, boardWidth, startY) ==
    LET c == copyShape(h, pieceData.shape)
        v == TetrisPiece(valueOf(h, pieceData), boardWidth, startY)
    IN  [heap |-> c.heap, obj |-> [v EXCEPT !.shape = c.addr]]

\* rotateTowards on an object: the candidate is a new array either way
heapRotateTowards(h, o, tapXn, boardWidth, boardHeight) ==
    LET v == valueOf(h, o)
        g == allocGrid(h, newShape(v, tapXn))
        r == rotateTowards(v, tapXn, boardWidth, boardHeight)
    IN  [heap |-> g.heap, obj |-> IF r.ret THEN [o EXCEPT !.shape = g.addr] ELSE o]

\* the fields x and y of o as in the piece value v
withPosition(o, v) == [o EXCEPT !.x = v.x, !.y = v.y]

\* the grid arrays referenced from the templates and from the pieces ps
roots(ps) ==
    [i \in 1..Len(tetrisPieces) |-> tetrisPieces[i].shape]
        \o [j \in 1..Len(ps) |-> ps[j].shape]

\* the heap h and the pieces ps once the arrays no longer referenced are gone
collected(h, ps) ==
    LET c == collect(h, roots(ps))
    IN  [heap |-> c.heap,
         pieces |-> [j \in 1..Len(ps) |-> [ps[j] EXCEPT !.shape = c.to[@]]]]

\* the bookkeeping of a call op on piece w that left heap h and pieces ps
HeapCalled(w, op, template, h, ps) ==
    /\ pieces' = ps
    /\ heap' = h
    /\ last' = [who |-> w, op |-> op, template |-> template,
                other |-> valueOf(heap, pieces[3 - w])]
    /\ UNCHANGED <<tetrisPieces, pieceVars, rotVars, repVars, gameVars, loopVars, timerVars>>

HeapCreate ==
    \E w \in 1..2, i \in 1..Len(tetrisPieces) :
        \E n \in {newTetrisPiece(heap, tetrisPieces[i], MaxBoardWidth,
                                  startYOrDefault(<<>>))} :
            \E c \in {collected(n.heap, [pieces EXCEPT ![w] = n.obj])} :
                HeapCalled(w, "create", i, c.heap, c.pieces)

HeapRotateTowards ==
    \E tapX \in TapXs :
        \E n \in {heapRotateTowards(heap, pieces[1], tapX,
                                     MaxBoardWidth, MaxBoardHeight)} :
            \E c \in {collected(n.heap, [pieces EXCEPT ![1] = n.obj])} :
                HeapCalled(1, "rotateTowards", 0, c.heap, c.pieces)

HeapMove ==
    \E dx \in Deltas, dy \in Deltas :
        LET r == move(valueOf(heap, pieces[1]), dx, dy, MaxBoardWidth, MaxBoardHeight)
        IN  HeapCalled(1, "move", 0, heap,
                       [pieces EXCEPT ![1] = withPosition(@, r.piece)])

HeapSetX ==
    \E newX \in NewXs :
        LET r == setX(valueOf(heap, pieces[1]), newX, MaxBoardWidth)
        IN  HeapCalled(1, "setX", 0, heap,
                       [pieces EXCEPT ![1] = withPosition(@, r.piece)])

HeapTeleportToGhost ==
    LET r == teleportToGhost(valueOf(heap, pieces[1]), MaxBoardHeight)
    IN  HeapCalled(1, "teleportToGhost", 0, heap,
                   [pieces EXCEPT ![1] = withPosition(@, r)])

HeapInit ==
    /\ tetrisPieces = loaded(Len(TETRIS_PIECES)).objs
    /\ \E i \in 1..Len(TETRIS_PIECES), j \in 1..Len(TETRIS_PIECES) :
          LET l == loaded(Len(TETRIS_PIECES))
              a == newTetrisPiece(l.heap, l.objs[i], MaxBoardWidth, startYOrDefault(<<>>))
              b == newTetrisPiece(a.heap, l.objs[j], MaxBoardWidth, startYOrDefault(<<>>))
          IN  /\ heap = b.heap
              /\ pieces = <<a.obj, b.obj>>
              /\ last = [who |-> 2, op |-> "create", template |-> j,
                         other |-> valueOf(a.heap, a.obj)]
    /\ PieceIdle
    /\ RotIdle
    /\ RepIdle
    /\ GameIdle
    /\ LoopIdle
    /\ TimerIdle

HeapNext ==
    \/ HeapCreate
    \/ HeapRotateTowards
    \/ HeapMove
    \/ HeapSetX
    \/ HeapTeleportToGhost

HeapSpec == HeapInit /\ [][HeapNext]_vars

---------------------------------------------------------------------------
(* Properties of the piece, checked under Spec *)

\* the bounding box of p lies within [0, boardWidth) x [0, boardHeight)
InBounds(p, boardWidth, boardHeight) ==
    /\ p.x >= 0
    /\ p.x + shapeWidth(p) <= boardWidth
    /\ p.y >= 0
    /\ p.y + shapeHeight(p) <= boardHeight

HasBoardWidth == call.op \in {"create", "rotateTowards", "move", "setX"}
HasBoardHeight == call.op \in {"rotateTowards", "move", "getGhostY", "teleportToGhost"}

\* C1 as stated: in every reachable state the piece lies within the board
\* dimensions passed to the most recent call.
C1_InBoundsOfLastCall ==
    /\ piece.x >= 0
    /\ piece.y >= 0
    /\ HasBoardWidth => piece.x + shapeWidth(piece) <= call.boardWidth
    /\ HasBoardHeight => piece.y + shapeHeight(piece) <= call.boardHeight

\* C1 amended: a piece that lies within the board when a move, rotateTowards,
\* setX, getGhostY or teleportToGhost call with those board dimensions begins
\* lies within it when the call returns, accepted or rejected.
C1_CallKeepsPieceInBounds ==
    call.op # "create" =>
        \A bw \in BoardWidths, bh \in BoardHeights :
            (/\ HasBoardWidth => bw = call.boardWidth
             /\ HasBoardHeight => bh = call.boardHeight
             /\ InBounds(pre, bw, bh))
                => InBounds(piece, bw, bh)

C1_Witness ==
    /\ call.op = "setX"
    /\ InBounds(pre, call.boardWidth, MaxBoardHeight)
    /\ Round(call.newX) > call.boardWidth - shapeWidth(pre)
    /\ ret = TRUE
    /\ piece.x = call.boardWidth - shapeWidth(piece)

\* C2: move returns true and commits (x + dx, y + dy) exactly when the target
\* satisfies all four bounds; in every other case it returns false.
C2_MoveAcceptsIffTargetFits ==
    call.op = "move" =>
        LET newX == pre.x + call.dx
            newY == pre.y + call.dy
            fits == /\ newX >= 0
                    /\ newX + shapeWidth(pre) <= call.boardWidth
                    /\ newY >= 0
                    /\ newY + shapeHeight(pre) <= call.boardHeight
        IN  /\ fits => (ret = TRUE /\ piece.x = newX /\ piece.y = newY)
            /\ ~fits => ret = FALSE

C2_Witness ==
    /\ call.op = "move"
    /\ call.dx = 1
    /\ call.dy = 1
    /\ ret = TRUE
    /\ piece.x = pre.x + 1
    /\ piece.y = pre.y + 1

\* C3: a move that returns false leaves x, y and the shape as they were, also
\* when only one of the two axes would have left the board.
C3_RejectedMoveChangesNothing ==
    (call.op = "move" /\ ret = FALSE) =>
        /\ piece.x = pre.x
        /\ piece.y = pre.y
        /\ piece.shape = pre.shape

C3_Witness ==
    /\ call.op = "move"
    /\ ret = FALSE
    /\ call.dx # 0
    /\ pre.x + call.dx >= 0
    /\ pre.x + call.dx + shapeWidth(pre) <= call.boardWidth
    /\ pre.y >= 0
    /\ pre.y + call.dy + shapeHeight(pre) > call.boardHeight
    /\ piece = pre

\* C4: rotateTowards accepts exactly when x + newWidth <= boardWidth and
\* y + newHeight <= boardHeight, the candidate being a quarter turn of the
\* shape (its width the old height, its height the old width); accepted, the
\* shape becomes the candidate and the call returns true; rejected, the call
\* returns false and shape, x and y are as before.
C4_RotateAcceptsIffCandidateFits ==
    call.op = "rotateTowards" =>
        LET newWidth == shapeHeight(pre)
            newHeight == shapeWidth(pre)
            fits == /\ pre.x + newWidth <= call.boardWidth
                    /\ pre.y + newHeight <= call.boardHeight
        IN  /\ fits => /\ ret = TRUE
                        /\ piece.shape \in {rotateMatrixClockwise(pre.shape),
                                             rotateMatrixCounterClockwise(pre.shape)}
                        /\ shapeWidth(piece) = newWidth
                        /\ shapeHeight(piece) = newHeight
            /\ ~fits => /\ ret = FALSE
                         /\ piece.shape = pre.shape
                         /\ piece.x = pre.x
                         /\ piece.y = pre.y

C4_Witness ==
    /\ call.op = "rotateTowards"
    /\ ret = FALSE
    /\ InBounds(pre, call.boardWidth, call.boardHeight)
    /\ pre.y + shapeWidth(pre) > call.boardHeight
    /\ piece = pre

\* C5 as stated: a piece that is in bounds and flush against the left or top
\* edge, with a candidate of other dimensions, has a rotateTowards call that
\* succeeds and leaves it at a negative coordinate.
C5_FlushPieceCanRotateNegative ==
    (/\ \E bw \in BoardWidths, bh \in BoardHeights : InBounds(piece, bw, bh)
     /\ piece.x = 0 \/ piece.y = 0
     /\ shapeWidth(piece) # shapeHeight(piece))
        => \E tapXn \in TapXs, bw \in BoardWidths, bh \in BoardHeights :
               LET r == rotateTowards(piece, tapXn, bw, bh)
               IN  r.ret /\ (r.piece.x < 0 \/ r.piece.y < 0)

\* C5 amended: rotateTowards omits the lower-bound check but never changes x
\* or y, so a piece with x >= 0 and y >= 0 before the call has x >= 0 and
\* y >= 0 after it; a negative coordinate after the call was there before it.
C5_RotateKeepsPosition ==
    call.op = "rotateTowards" =>
        /\ piece.x = pre.x
        /\ piece.y = pre.y
        /\ (pre.x >= 0 /\ pre.y >= 0) => (piece.x >= 0 /\ piece.y >= 0)

C5_Witness ==
    /\ call.op = "rotateTowards"
    /\ ret = TRUE
    /\ InBounds(pre, call.boardWidth, call.boardHeight)
    /\ pre.x = 0
    /\ pre.y = 0
    /\ shapeWidth(piece) # shapeWidth(pre)
    /\ piece.x = 0
    /\ piece.y = 0

\* C10: the constructor sets x = floor(boardWidth / 2) - floor(templateWidth / 2)
\* and y = startY, 0 when startY is left out, for every template and board
\* width; the I template on a board of width 10 starts at x = 3, y = 0.
C10_CreatePosition ==
    /\ call.op = "create" =>
          LET templateWidth == Len(TETRIS_PIECES[call.template].shape[1])
          IN  /\ \E a \in 0..call.boardWidth, b \in 0..templateWidth :
                    /\ 2 * a <= call.boardWidth /\ call.boardWidth < 2 * a + 2
                    /\ 2 * b <= templateWidth /\ templateWidth < 2 * b + 2
                    /\ piece.x = a - b
              /\ piece.y = IF call.rest = <<>> THEN 0 ELSE call.rest[1]
    /\ LET p == TetrisPiece(TETRIS_PIECES[1], 10, startYOrDefault(<<>>))
       IN  p.name = "I" /\ p.x = 3 /\ p.y = 0

C10_Witness ==
    /\ call.op = "create"
    /\ TETRIS_PIECES[call.template].name = "T"
    /\ call.boardWidth = MaxBoardWidth
    /\ call.rest = <<>>
    /\ piece.x = (MaxBoardWidth \div 2) - 1
    /\ piece.y = 0

\* C11 as stated: for every template and every boardWidth >= templateWidth the
\* free columns left of a new piece are never more than those right of it.
C11_CentredTowardsLeft ==
    call.op = "create" =>
        LET templateWidth == Len(TETRIS_PIECES[call.template].shape[1])
        IN  call.boardWidth >= templateWidth
              => piece.x <= call.boardWidth - piece.x - templateWidth

\* C11 amended: the free columns left and right of a new piece differ by at
\* most one; they are equal when boardWidth and templateWidth have the same
\* parity, there is one more on the right when boardWidth is odd and
\* templateWidth even, and one more on the LEFT when boardWidth is even and
\* templateWidth odd.
C11_CentringByParity ==
    call.op = "create" =>
        LET templateWidth == Len(TETRIS_PIECES[call.template].shape[1])
            left == piece.x
            right == call.boardWidth - piece.x - templateWidth
            oddBoard == call.boardWidth % 2 = 1
            oddTemplate == templateWidth % 2 = 1
        IN  call.boardWidth >= templateWidth =>
              /\ (oddBoard = oddTemplate) => left = right
              /\ (oddBoard /\ ~oddTemplate) => left + 1 = right
              /\ (~oddBoard /\ oddTemplate) => left = right + 1

C11_Witness ==
    /\ call.op = "create"
    /\ TETRIS_PIECES[call.template].name = "T"
    /\ call.boardWidth = 2 * (MaxBoardWidth \div 2)
    /\ call.boardWidth >= shapeWidth(piece)
    /\ piece.x = (call.boardWidth - piece.x - shapeWidth(piece)) + 1

\* Math.round(n / 2) = r: r - 1/2 <= n / 2 < r + 1/2
IsRounded(n, r) == 2 * r - 1 <= n /\ n < 2 * r + 1

\* C13 as stated: after setX, x lies in [0, boardWidth - shapeWidth].
C13_SetXLandsInInterval ==
    call.op = "setX" =>
        /\ 0 <= piece.x
        /\ piece.x <= call.boardWidth - shapeWidth(piece)

\* C13 amended: after setX(targetX, boardWidth), x is round(targetX) clamped
\* into [0, boardWidth - shapeWidth] when boardWidth >= shapeWidth (so 0 for
\* targetX = -5 and boardWidth - shapeWidth for targetX = boardWidth + 100);
\* when boardWidth < shapeWidth the interval is empty and x is 0 for every
\* targetX.
C13_SetXClamps ==
    /\ call.op = "setX" =>
          LET hi == call.boardWidth - shapeWidth(pre)
          IN  \E r \in (-2)..(MaxBoardWidth + 2) :
                /\ IsRounded(call.newX, r)
                /\ (hi >= 0) => (0 <= piece.x /\ piece.x <= hi)
                /\ (hi >= 0 /\ 0 <= r /\ r <= hi) => (piece.x = r)
                /\ (hi >= 0 /\ r < 0) => (piece.x = 0)
                /\ (hi >= 0 /\ r > hi) => (piece.x = hi)
                /\ (hi < 0) => (piece.x = 0)
    /\ \A bw \in BoardWidths :
          /\ bw >= shapeWidth(piece) =>
                /\ setX(piece, 2 * (-5), bw).piece.x = 0
                /\ setX(piece, 2 * (bw + 100), bw).piece.x = bw - shapeWidth(piece)
          /\ bw < shapeWidth(piece) =>
                /\ setX(piece, 2 * (-5), bw).piece.x = 0
                /\ setX(piece, 2 * (bw + 100), bw).piece.x = 0

C13_Witness ==
    /\ call.op = "setX"
    /\ call.newX = 2 * pre.x + 1
    /\ pre.x + 1 + shapeWidth(pre) <= call.boardWidth
    /\ pre.x >= 0
    /\ piece.x = pre.x + 1

\* the clamped target of a setX call, from its three cases
ClampedTarget(p, n, boardWidth) ==
    LET hi == boardWidth - shapeWidth(p)
        r == CHOOSE v \in (-2)..(MaxBoardWidth + 2) : IsRounded(n, v)
    IN  IF hi < 0 \/ r < 0 THEN 0 ELSE IF r > hi THEN hi ELSE r

\* C14: setX returns true exactly when the clamped target differs from the
\* current x, and then x is the clamped target; it returns false exactly when
\* they are equal, and then x, y and the shape are unchanged.
C14_SetXReportsChange ==
    call.op = "setX" =>
        LET target == ClampedTarget(pre, call.newX, call.boardWidth)
        IN  /\ target # pre.x => (ret = TRUE /\ piece.x = target)
            /\ target = pre.x => (ret = FALSE /\ piece = pre)
            /\ piece.y = pre.y
            /\ piece.shape = pre.shape

C14_Witness ==
    /\ call.op = "setX"
    /\ ret = FALSE
    /\ Round(call.newX) > pre.x
    /\ pre.x = call.boardWidth - shapeWidth(pre)
    /\ pre.x > 0
    /\ piece = pre

\* C15 as stated: for every piece and every boardHeight the result r of
\* getGhostY satisfies r + shapeHeight <= boardHeight, r >= y and
\* r + shapeHeight = boardHeight.
C15_GhostRestsOnFloor ==
    call.op = "getGhostY" =>
        /\ ret + shapeHeight(pre) <= call.boardHeight
        /\ ret >= pre.y
        /\ ret + shapeHeight(pre) = call.boardHeight

\* C15 amended: the result r of getGhostY satisfies r >= y always; when
\* y + shapeHeight <= boardHeight, r + shapeHeight = boardHeight (the piece
\* rests on the floor); when y + shapeHeight > boardHeight, r = y and
\* r + shapeHeight > boardHeight.
C15_GhostIsFloorOrY ==
    call.op = "getGhostY" =>
        /\ ret >= pre.y
        /\ pre.y + shapeHeight(pre) <= call.boardHeight
              => ret + shapeHeight(pre) = call.boardHeight
        /\ pre.y + shapeHeight(pre) > call.boardHeight
              => (ret = pre.y /\ ret + shapeHeight(pre) > call.boardHeight)
        /\ piece = pre

C15_Witness ==
    /\ call.op = "getGhostY"
    /\ pre.y >= 0
    /\ pre.y + shapeHeight(pre) < call.boardHeight
    /\ ret > pre.y
    /\ ret + shapeHeight(pre) = call.boardHeight

\* C16: teleportToGhost sets y to the value getGhostY returns on the piece as
\* it was before the call and changes nothing else; a piece of height 2 at
\* y = 0 on a board of height 20 ends at y = 18.
C16_TeleportSetsGhostY ==
    /\ call.op = "teleportToGhost" =>
          /\ piece.y = getGhostY(pre, call.boardHeight)
          /\ piece = [pre EXCEPT !.y = piece.y]
    /\ \A i \in 1..Len(TETRIS_PIECES) :
          LET p == TetrisPiece(TETRIS_PIECES[i], 10, 0)
          IN  shapeHeight(p) = 2 => teleportToGhost(p, 20).y = 18

C16_Witness ==
    /\ call.op = "teleportToGhost"
    /\ shapeHeight(pre) = 2
    /\ pre.y = 1
    /\ call.boardHeight = MaxBoardHeight
    /\ piece.y = MaxBoardHeight - 2
    /\ piece.x = pre.x

\* C20: move(0, 0, w, h) never changes the position, and returns true
\* whenever the piece is in bounds for (w, h) before the call.
C20_NullMove ==
    (call.op = "move" /\ call.dx = 0 /\ call.dy = 0) =>
        /\ piece.x = pre.x
        /\ piece.y = pre.y
        /\ InBounds(pre, call.boardWidth, call.boardHeight) => ret = TRUE

C20_Witness ==
    /\ call.op = "move"
    /\ call.dx = 0
    /\ call.dy = 0
    /\ InBounds(pre, call.boardWidth, call.boardHeight)
    /\ pre.x + shapeWidth(pre) = call.boardWidth
    /\ ret = TRUE
    /\ piece = pre

\* C21: rotateTowards picks the direction only from tapX and the piece's
\* horizontal centre x + shapeWidth / 2: an accepted call leaves the clockwise
\* rotation of the shape when tapX > x + shapeWidth / 2 and the
\* counter-clockwise rotation when tapX <= x + shapeWidth / 2, a tap exactly
\* on the centre included (tapX is call.tapX / 2, so both sides are doubled).
C21_DirectionFromTap ==
    (call.op = "rotateTowards" /\ ret = TRUE) =>
        /\ call.tapX > 2 * pre.x + shapeWidth(pre)
              => piece.shape = rotateMatrixClockwise(pre.shape)
        /\ call.tapX <= 2 * pre.x + shapeWidth(pre)
              => piece.shape = rotateMatrixCounterClockwise(pre.shape)

\* a tap exactly on the centre of a piece whose two rotations differ
C21_Witness ==
    /\ call.op = "rotateTowards"
    /\ ret = TRUE
    /\ call.tapX = 2 * pre.x + shapeWidth(pre)
    /\ rotateMatrixClockwise(pre.shape) # rotateMatrixCounterClockwise(pre.shape)
    /\ piece.shape = rotateMatrixCounterClockwise(pre.shape)

\* C22: each operation changes only its own fields: rotateTowards never
\* changes x or y, move never changes the shape, setX never changes y or the
\* shape, teleportToGhost never changes x or the shape, getGhostY changes
\* nothing, and no operation changes color or name after creation.
C22_OnlyOwnFields ==
    /\ call.op = "rotateTowards" => (piece.x = pre.x /\ piece.y = pre.y)
    /\ call.op = "move" => piece.shape = pre.shape
    /\ call.op = "setX" => (piece.y = pre.y /\ piece.shape = pre.shape)
    /\ call.op = "teleportToGhost" => (piece.x = pre.x /\ piece.shape = pre.shape)
    /\ call.op = "getGhostY" => piece = pre
    /\ call.op # "create" => (piece.color = pre.color /\ piece.name = pre.name)

\* an accepted rotation, to a grid of another width, away from the left and top edges
C22_Witness ==
    /\ call.op = "rotateTowards"
    /\ ret = TRUE
    /\ shapeWidth(piece) # shapeWidth(pre)
    /\ pre.x > 0
    /\ pre.y > 0
    /\ piece.x = pre.x
    /\ piece.y = pre.y

\* the entry of TETRIS_PIECES with the name n
TemplateNamed(n) == CHOOSE t \in {TETRIS_PIECES[i] : i \in 1..Len(TETRIS_PIECES)} : t.name = n

\* the number of occupied cells of the grid g
Occupied(g) ==
    Cardinality({d \in (1..Len(g)) \X (1..Len(g[1])) : g[d[1]][d[2]] = 1})

\* C26: after any sequence of operations the shape of a piece is one of the
\* grids obtained by rotating its template clockwise 0 to 3 times: it is
\* rectangular, has exactly 4 occupied cells, and its width and height are
\* those of the template, possibly swapped.
C26_ShapeIsRotatedTemplate ==
    LET t == TemplateNamed(piece.name).shape
    IN  /\ \E k \in 0..3 : piece.shape = turned(t, k)
        /\ \A r \in 1..Len(piece.shape) : Len(piece.shape[r]) = Len(piece.shape[1])
        /\ Occupied(piece.shape) = 4
        /\ \/ shapeWidth(piece) = Len(t[1]) /\ shapeHeight(piece) = Len(t)
           \/ shapeWidth(piece) = Len(t) /\ shapeHeight(piece) = Len(t[1])

\* an L piece three clockwise quarter turns from its template, reached by a
\* counter-clockwise rotation
C26_Witness ==
    /\ call.op = "rotateTowards"
    /\ ret = TRUE
    /\ piece.name = "L"
    /\ pre.shape = TETRIS_PIECES[6].shape
    /\ piece.shape = rotateMatrixCounterClockwise(pre.shape)
    /\ piece.shape = turned(TETRIS_PIECES[6].shape, 3)

\* C27: teleportToGhost is idempotent and lands on the floor: for a piece in
\* bounds for (boardWidth, boardHeight), after teleportToGhost(boardHeight)
\* the piece rests on the floor, a second teleportToGhost(boardHeight) leaves
\* it as it is, getGhostY(boardHeight) equals y, and
\* move(0, 1, boardWidth, boardHeight) is rejected.
C27_TeleportIsIdempotent ==
    call.op = "teleportToGhost" =>
        \A bw \in BoardWidths :
            InBounds(pre, bw, call.boardHeight) =>
                /\ piece.y + shapeHeight(piece) = call.boardHeight
                /\ teleportToGhost(piece, call.boardHeight) = piece
                /\ getGhostY(piece, call.boardHeight) = piece.y
                /\ move(piece, 0, 1, bw, call.boardHeight).ret = FALSE
                /\ move(piece, 0, 1, bw, call.boardHeight).piece = piece

C27_Witness ==
    /\ call.op = "teleportToGhost"
    /\ InBounds(pre, MaxBoardWidth, call.boardHeight)
    /\ pre.y + shapeHeight(pre) < call.boardHeight
    /\ piece.y > pre.y
    /\ teleportToGhost(piece, call.boardHeight).y = piece.y

---------------------------------------------------------------------------
(* Properties of one piece on one board, checked under GameSpec *)

\* the piece was created with boardWidth >= templateWidth and
\* 0 <= startRow <= boardHeight - templateHeight
CreatedInBounds ==
    LET t == TETRIS_PIECES[game.template].shape
    IN  /\ game.boardWidth >= Len(t[1])
        /\ 0 <= game.startY
        /\ game.startY <= game.boardHeight - Len(t)

\* C25: if a piece is created with boardWidth >= templateWidth and
\* 0 <= startRow <= boardHeight - templateHeight, and every later call uses
\* the same boardWidth and boardHeight, then 0 <= x, x + shapeWidth <=
\* boardWidth, 0 <= y and y + shapeHeight <= boardHeight hold after every
\* sequence of move, rotateTowards, setX and teleportToGhost calls, accepted
\* or rejected.
C25_StaysOnBoard ==
    CreatedInBounds => InBounds(piece, game.boardWidth, game.boardHeight)

\* a rotated piece in the bottom-right corner of the board, where the next
\* rotation is rejected
C25_Witness ==
    /\ CreatedInBounds
    /\ piece.shape # pre.shape
    /\ ~rotateTowards(piece, 0, game.boardWidth, game.boardHeight).ret
    /\ piece.x + shapeWidth(piece) = game.boardWidth
    /\ piece.y + shapeHeight(piece) = game.boardHeight
    /\ piece.x > 0
    /\ piece.y > 0

---------------------------------------------------------------------------
(* Properties of the loops, checked under LoopSpec *)

\* what holds of the number of loop bodies run: in getGhostY never more than
\* max(0, boardHeight - shapeHeight - y) and exactly that many at the return,
\* which gives y plus that number; in a rotation never more than rows * cols
\* and exactly that many at the return, which gives the rotated grid
StepsAreBounded ==
    /\ loop.fn = "getGhostY" =>
          LET n == Max(0, loop.boardHeight - Len(loop.this.shape) - loop.this.y)
          IN  /\ loop.steps <= n
              /\ loop.pc = "done" => (loop.steps = n /\ loop.ret = <<loop.this.y + n>>)
    /\ IsRotation =>
          /\ loop.steps <= loop.rows * loop.cols
          /\ loop.pc = "done" =>
                /\ loop.steps = loop.rows * loop.cols
                /\ loop.ret = IF loop.fn = "rotateMatrixClockwise"
                               THEN <<rotateMatrixClockwise(loop.matrix)>>
                               ELSE <<rotateMatrixCounterClockwise(loop.matrix)>>

\* C24: getGhostY terminates for every integer piece.y, shape height and
\* boardHeight: its loop runs exactly max(0, boardHeight - shapeHeight - y)
\* iterations and then returns; and no other piece operation loops without
\* bound: the only other loops, those of the two rotations, run rows * cols
\* bodies and return.
C24_LoopsTerminate == <>(loop.pc = "done") /\ []StepsAreBounded

\* a getGhostY call on a piece that starts above the board has returned
\* after more than one iteration
C24_Witness ==
    /\ loop.fn = "getGhostY"
    /\ loop.pc = "done"
    /\ loop.this.y < 0
    /\ loop.steps = loop.boardHeight - Len(loop.this.shape) - loop.this.y
    /\ loop.steps > MaxBoardHeight
    /\ loop.ret = <<loop.this.y + loop.steps>>

---------------------------------------------------------------------------
(* Properties of the drop timer, checked under TimerSpec *)

\* the callback f is among those the most recent call invoked
Invoked(f) == \E i \in 1..Len(tick.calls) : tick.calls[i] = f

\* C28: update() invokes no callback and changes no timer state while the
\* timer is not running; while running, one update() invokes onDrop at most
\* once, invokes onBottom only directly after an onDrop call of that same
\* update returned a falsy value, and resets the accumulated time to 0
\* whenever onDrop was invoked.
C28_UpdateCallbacks ==
    tick.op = "update" =>
        /\ ~tick.before.running => (tick.calls = <<>> /\ dropTimer = tick.before)
        /\ tick.before.running =>
              /\ Cardinality({i \in 1..Len(tick.calls) : tick.calls[i] = "onDrop"}) <= 1
              /\ \A i \in 1..Len(tick.calls) :
                    tick.calls[i] = "onBottom" =>
                        /\ i > 1
                        /\ tick.calls[i - 1] = "onDrop"
                        /\ tick.canDrop = <<FALSE>>
              /\ Invoked("onDrop") => dropTimer.timer = 0

\* an update of a running timer with time accumulated that invoked onDrop,
\* was told the piece cannot drop, and invoked onBottom
C28_Witness ==
    /\ tick.op = "update"
    /\ tick.before.running
    /\ tick.before.timer > 0
    /\ tick.calls = <<"onDrop", "onBottom">>
    /\ tick.canDrop = <<FALSE>>
    /\ dropTimer.timer = 0

\* C29 as stated: stop() and pause() do not reset the last-update timestamp
\* and update() does not advance it while not running; the first update()
\* after the timer is resumed by pause() adds the whole interval since the
\* last update that ran while running to the accumulated time, so that a drop
\* fires on that update whenever accumulated time plus that interval reaches
\* dropInterval.
C29_ResumeAddsWholeInterval ==
    /\ tick.op \in {"stop", "pause"} => dropTimer.lastTime = tick.before.lastTime
    /\ (tick.op = "update" /\ ~tick.before.running)
          => dropTimer.lastTime = tick.before.lastTime
    /\ (/\ tick.op = "update"
        /\ tick.before.running
        /\ tick.was.resumed
        /\ tick.was.lastRun # <<>>)
          => LET total == tick.before.timer + (tick.args[1] - tick.was.lastRun[1])
             IN  /\ total >= dropTimer.dropInterval
                       => (Invoked("onDrop") /\ dropTimer.timer = 0)
                 /\ total < dropTimer.dropInterval
                       => (tick.calls = <<>> /\ dropTimer.timer = total)

\* the first update after a resume, the last update of the running timer
\* having been update(0): the interval reaches dropInterval and no drop fires
C29_Witness ==
    /\ tick.op = "update"
    /\ tick.before.running
    /\ tick.was.resumed
    /\ tick.was.lastRun = <<0>>
    /\ dropTimer.dropInterval > 0
    /\ tick.before.timer + tick.args[1] >= dropTimer.dropInterval
    /\ tick.calls = <<>>
    /\ dropTimer.timer = 0

\* C30: the running flag follows the controls for every call sequence:
\* start() leaves the timer running with accumulated time 0, stop() leaves it
\* not running, pause() flips the flag and leaves the accumulated time alone
\* (so pause() on a timer that was never started starts it), and isRunning()
\* reports the current flag.
C30_RunningFollowsControls ==
    /\ tick.op = "start" => (dropTimer.running /\ dropTimer.timer = 0)
    /\ tick.op = "stop" => ~dropTimer.running
    /\ tick.op = "pause" =>
          /\ dropTimer.running = ~tick.before.running
          /\ dropTimer.timer = tick.before.timer
    /\ tick.op = "isRunning" =>
          /\ tick.ret = <<dropTimer.running>>
          /\ dropTimer = tick.before

\* pause turns a timer that is not running on and keeps its accumulated time
C30_Witness ==
    /\ tick.op = "pause"
    /\ ~tick.before.running
    /\ dropTimer.running
    /\ tick.before.timer > 0
    /\ dropTimer.timer = tick.before.timer

---------------------------------------------------------------------------
(* Properties of repeated calls, checked under RepeatSpec *)

\* the piece before the i-th call of the run
Before(i) == IF i = 1 THEN rep.start ELSE rep.results[i - 1].piece

\* C17: a new I piece on a 10 x 20 board (x = 3, y = 0) accepts move(0, 1, 10, 20)
\* on each of the first 19 calls, ending at y = 19, and the 20th and later
\* calls return false with the piece at x = 3, y = 19.  In general repeated
\* move(0, 1) from an in-bounds piece succeeds exactly
\* boardHeight - shapeHeight - y times and is rejected on every later call.
C17_DropCount ==
    LET c == rep.call
        s == rep.start
        R == rep.results
    IN  /\ (/\ c.op = "move" /\ c.dx = 0 /\ c.dy = 1
             /\ InBounds(s, c.boardWidth, c.boardHeight))
              => LET n == c.boardHeight - shapeHeight(s) - s.y
                 IN  \A i \in 1..Len(R) :
                       /\ i <= n => (R[i].ret = TRUE /\ R[i].piece.y = s.y + i)
                       /\ i > n => (R[i].ret = FALSE /\ R[i].piece.y = s.y + n)
                       /\ R[i].piece.x = s.x
                       /\ R[i].piece.shape = s.shape
        /\ (s = ScenarioPiece /\ c = ScenarioCall)
              => /\ s.name = "I" /\ s.x = 3 /\ s.y = 0
                 /\ \A i \in 1..Len(R) :
                       /\ i <= 19 => (R[i].ret = TRUE /\ R[i].piece.y = i)
                       /\ i >= 20 => (R[i].ret = FALSE /\ R[i].piece.y = 19)
                       /\ R[i].piece.x = 3

C17_Witness ==
    /\ rep.start = ScenarioPiece
    /\ rep.call = ScenarioCall
    /\ Len(rep.results) >= 20
    /\ rep.results[19].ret = TRUE
    /\ rep.results[20].ret = FALSE
    /\ piece.x = 3
    /\ piece.y = 19

\* C18: once a move, rotateTowards or setX call has returned false, the same
\* call made again with the same arguments, with no other call in between,
\* returns false again and leaves the piece as it was, every time.
C18_RejectionRepeats ==
    \A i \in 1..Len(rep.results) :
        rep.results[i].ret = FALSE =>
            \A j \in (i + 1)..Len(rep.results) :
                /\ rep.results[j].ret = FALSE
                /\ rep.results[j].piece = Before(j)
                /\ rep.results[j].piece = rep.results[i].piece

C18_Witness ==
    /\ rep.call.op = "rotateTowards"
    /\ InBounds(rep.start, rep.call.boardWidth, rep.call.boardHeight)
    /\ Len(rep.results) = 3
    /\ \A i \in 1..3 : rep.results[i].ret = FALSE
    /\ piece = rep.start

---------------------------------------------------------------------------
(* Properties of the objects, checked under HeapSpec *)

\* the arrays that make up the templates' grids
TemplateArrays ==
    UNION {arraysOf(heap, tetrisPieces[i].shape) : i \in 1..Len(tetrisPieces)}

\* C12: a piece's shape is an independent copy of its template: it consists of
\* arrays that no template consists of, and after any sequence of
\* rotateTowards, move, setX and teleportToGhost calls every entry of
\* TETRIS_PIECES still has its original grid, so that a piece created later
\* from a template starts in the template's original orientation.
C12_TemplatesKeepTheirGrids ==
    /\ \A i \in 1..Len(tetrisPieces) :
          valueOf(heap, tetrisPieces[i]) = TETRIS_PIECES[i]
    /\ \A j \in 1..Len(pieces) :
          arraysOf(heap, pieces[j].shape) \cap TemplateArrays = {}
    /\ last.op = "create" =>
          deref(heap, pieces[last.who].shape) = TETRIS_PIECES[last.template].shape

\* a piece created from a template that the other piece, created from the
\* same template, has been rotated away from
C12_Witness ==
    /\ last.op = "create"
    /\ last.who = 2
    /\ pieces[1].name = pieces[2].name
    /\ deref(heap, pieces[1].shape) # TETRIS_PIECES[last.template].shape
    /\ deref(heap, pieces[2].shape) = TETRIS_PIECES[last.template].shape

\* C19: pieces share no mutable state: the two pieces alive have no array in
\* common, also when created from the same template, and every move,
\* rotateTowards, setX and teleportToGhost call on one piece leaves the other
\* piece's x, y and shape as they were.
C19_OtherPieceUntouched ==
    /\ arraysOf(heap, pieces[1].shape) \cap arraysOf(heap, pieces[2].shape) = {}
    /\ valueOf(heap, pieces[3 - last.who]) = last.other

\* an accepted rotation of one of two pieces created from the same template
C19_Witness ==
    /\ last.op = "rotateTowards"
    /\ pieces[1].name = pieces[2].name
    /\ pieces[1].x = pieces[2].x
    /\ pieces[1].y # pieces[2].y
    /\ deref(heap, pieces[1].shape) # deref(heap, pieces[2].shape)
    /\ deref(heap, pieces[2].shape) = last.other.shape

---------------------------------------------------------------------------
(* Properties of the rotations, checked under RotSpec *)

\* two grids with the same dimensions and the same cell values
SameGrid(a, b) ==
    /\ Len(a) = Len(b)
    /\ \A r \in 1..Len(a) :
          /\ Len(a[r]) = Len(b[r])
          /\ \A c \in 1..Len(a[r]) : a[r][c] = b[r][c]

\* C6: for each of the 7 templates, four clockwise rotations in a row give a
\* grid with the dimensions and the cells of the template.
C6_FourClockwiseRestoreTemplate ==
    (/\ matrix \in TemplateShapes
     /\ Len(fns) >= 4
     /\ \A i \in 1..4 : fns[i] = "cw")
        => SameGrid(trail[5], matrix)

C6_Witness ==
    /\ matrix = TETRIS_PIECES[3].shape
    /\ fns = <<"cw", "cw", "cw", "cw">>
    /\ trail[2] # matrix
    /\ trail[5] = matrix

\* C7: a clockwise rotation followed at once by a counter-clockwise one gives
\* back the grid the pair started from, for every grid of the run (the grids
\* of at most MaxCells cells, among them the templates in every orientation).
C7_ClockwiseThenCounterIsIdentity ==
    \A i \in 1..(Len(fns) - 1) :
        (fns[i] = "cw" /\ fns[i + 1] = "ccw") => SameGrid(trail[i + 2], trail[i])

C7_Witness ==
    /\ matrix = TETRIS_PIECES[6].shape
    /\ fns = <<"cw", "cw", "cw", "ccw">>
    /\ trail[3] # matrix
    /\ trail[5] = trail[3]

\* C8: the clockwise rotation of an R x C grid is a C x R grid with
\* output[y][x] = input[R-1-x][y] for 0 <= y < C, 0 <= x < R (0-based), and
\* the T template rotated clockwise once is [[1,0],[1,1],[1,0]].
C8_ClockwiseIndexMapping ==
    /\ \A i \in 1..Len(fns) :
          fns[i] = "cw" =>
            LET input == trail[i]
                output == trail[i + 1]
                R == Len(input)
                C == Len(input[1])
            IN  /\ Len(output) = C
                /\ \A y \in 0..(C - 1) :
                      /\ Len(output[y + 1]) = R
                      /\ \A x \in 0..(R - 1) :
                            output[y + 1][x + 1] = input[(R - 1 - x) + 1][y + 1]
    /\ (matrix = <<<<0,1,0>>, <<1,1,1>>>> /\ Len(fns) >= 1 /\ fns[1] = "cw")
          => trail[2] = <<<<1,0>>, <<1,1>>, <<1,0>>>>

C8_Witness ==
    /\ matrix = <<<<0,1,0>>, <<1,1,1>>>>
    /\ fns = <<"cw">>
    /\ trail[2] = <<<<1,0>>, <<1,1>>, <<1,0>>>>

\* C9: the counter-clockwise rotation of an R x C grid is a C x R grid with
\* output[y][x] = input[x][C-1-y] for 0 <= y < C, 0 <= x < R (0-based).
C9_CounterClockwiseIndexMapping ==
    \A i \in 1..Len(fns) :
        fns[i] = "ccw" =>
          LET input == trail[i]
              output == trail[i + 1]
              R == Len(input)
              C == Len(input[1])
          IN  /\ Len(output) = C
              /\ \A y \in 0..(C - 1) :
                    /\ Len(output[y + 1]) = R
                    /\ \A x \in 0..(R - 1) :
                          output[y + 1][x + 1] = input[x + 1][(C - 1 - y) + 1]

C9_Witness ==
    /\ matrix = <<<<0,1,0>>, <<1,1,1>>>>
    /\ fns = <<"ccw">>
    /\ trail[2] = <<<<0,1>>, <<1,1>>, <<0,1>>>>

\* the shapes of the templates with the given names
ShapesNamed(ns) ==
    {TETRIS_PIECES[i].shape : i \in {j \in 1..Len(TETRIS_PIECES) : TETRIS_PIECES[j].name \in ns}}

\* the grids of the run so far
Seen == {trail[i] : i \in 1..Len(trail)}

\* C23: under repeated clockwise rotation the templates T, L and J pass
\* through 4 pairwise distinct grids, S and Z through exactly 2 distinct
\* grids, and O gives the same grid after every single rotation.
C23_OrbitSizes ==
    (\A i \in 1..Len(fns) : fns[i] = "cw") =>
        /\ matrix \in ShapesNamed({"T", "L", "J"})
              => Cardinality(Seen) = Min(Len(trail), 4)
        /\ matrix \in ShapesNamed({"S", "Z"})
              => Cardinality(Seen) = Min(Len(trail), 2)
        /\ matrix \in ShapesNamed({"O"})
              => Seen = {matrix}

\* a run of clockwise rotations of J that is back at the first grid after
\* four pairwise distinct ones
C23_Witness ==
    /\ matrix = TETRIS_PIECES[7].shape
    /\ Len(fns) = MaxRotations
    /\ \A i \in 1..Len(fns) : fns[i] = "cw"
    /\ Cardinality({trail[i] : i \in 1..4}) = 4
    /\ trail[5] = matrix

===========================================================================
